---- MODULE Spec2Model ----
(***************************************************************************)
(* Forward-rendering passes of renderer/src/pass/forward.rs: Clear,        *)
(* DrawNoShading (flat), DrawShaded and Wireframe, each recording commands *)
(* into a gfx command encoder.                                             *)
(*                                                                         *)
(* f32 values are modelled by integers (the shader's sqrt and division are *)
(* the integer ones); 4x4 matrices, vertex buffers and slices are opaque   *)
(* integer identities.  Resource handles are strings.                      *)
(***************************************************************************)
EXTENDS Integers, Sequences, FiniteSets, TLC

VARIABLES frame, passes, device, encoder, last, calls

vars == <<frame, passes, device, encoder, last, calls>>

(***************************************************************************)
(* Bounds of the model.                                                    *)
(***************************************************************************)
\* entities per scene
MaxEntities == 2
\* apply invocations recorded into one encoder
MaxCalls == 2
\* how far a scene's light list may exceed the light buffer
Overflow == 1

(***************************************************************************)
(* Program constants.                                                      *)
(***************************************************************************)
\* factory.create_constant_buffer(512), MAX_NUM_TOTAL_LIGHTS
Capacity == 512

SceneIds == {1, 2}
CameraIds == {1, 2}
LightCounts == {0, 2, 5, Capacity, Capacity + Overflow}
ClearColors == {<<0, 0, 0, 1>>, <<1, 2, 3, 1>>}

\* the render target handed to every invocation (target::ColorBuffer)
Target == [color |-> "target.color", output_depth |-> "target.output_depth"]

(***************************************************************************)
(* Frame data: scenes of entities (fragments) and point lights, cameras.   *)
(***************************************************************************)
EntityAt(s, i) ==
    [buffer    |-> 100 * s + i,
     slice     |-> 200 * s + i,
     ka        |-> <<i, s, 0, 1>>,
     kd        |-> <<1, i, s, 1>>,
     transform |-> 300 * s + i]

LightAt(s, i) ==
    [propagation_constant |-> 1 + (i % 3),
     propagation_linear   |-> (i + s) % 2,
     propagation_r_square |-> 1 + (i % 2),
     center               |-> <<(i % 5) - 2, s, 1 + (i % 3)>>,
     color                |-> <<1 + (i % 2), 1, s, 1>>]

SceneOf(s, nLights, nEntities) ==
    [fragments |-> [i \in 1..nEntities |-> EntityAt(s, i)],
     lights    |-> [i \in 1..nLights |-> LightAt(s, i)]]

CameraOf(c) == [view |-> 400 + c, projection |-> 500 + c]

\* missing: scene 2 and camera 2 are absent from the frame
FrameOf(n1, k1, missing) ==
    [scenes  |-> [s \in (IF missing THEN {1} ELSE SceneIds) |->
                    IF s = 1 THEN SceneOf(1, n1, k1)
                             ELSE SceneOf(2, 2, MaxEntities)],
     cameras |-> [c \in (IF missing THEN {1} ELSE CameraIds) |->
                    CameraOf(c)]]

\* the frames the passes are applied to: every light count with a full
\* scene, every entity count, and a frame with ids missing
Frames ==
    {FrameOf(n1, MaxEntities, FALSE) : n1 \in LightCounts}
    \cup {FrameOf(5, k1, FALSE) : k1 \in 0..MaxEntities}
    \cup {FrameOf(2, MaxEntities, TRUE)}

(***************************************************************************)
(* gfx_defines! constant PointLight, and the packing of DrawShaded::apply. *)
(***************************************************************************)
\* pads with the homogeneous coordinate of a point instead of 0
pad_w1(x) == <<x[1], x[2], x[3], 1>>

pad(x) == <<x[1], x[2], x[3], 0>>

\* center and color exchanged
PointLight_swapped(l) ==
    [propagation |-> <<l.propagation_constant, l.propagation_linear,
                       l.propagation_r_square, 0>>,
     color       |-> pad(l.center),
     center      |-> l.color]

PointLight(l) ==
    [propagation |-> <<l.propagation_constant, l.propagation_linear,
                       l.propagation_r_square, 0>>,
     color       |-> l.color,
     center      |-> pad(l.center)]

ZeroLight ==
    [propagation |-> <<0, 0, 0, 0>>,
     color       |-> <<0, 0, 0, 0>>,
     center      |-> <<0, 0, 0, 0>>]

\* scene.lights.iter().map(|l| PointLight{..}).collect()
CollectLights(sceneLights) ==
    [i \in 1..Len(sceneLights) |-> PointLight(sceneLights[i])]

\* the padding loop left out
PadLights_none(lights) == lights

\* while lights.len() < 512 { lights.push(zero) }
PadLights(lights) ==
    IF Len(lights) < Capacity
    THEN lights \o [i \in 1..(Capacity - Len(lights)) |-> ZeroLight]
    ELSE lights

(***************************************************************************)
(* Pass construction: the pipeline state objects and the light buffer.     *)
(***************************************************************************)
DrawNoShading_new ==
    [pso |-> [vs |-> "VERTEX_SRC", gs |-> "", fs |-> "FLAT_FRAGMENT_SRC"]]

DrawShaded_new ==
    [lights |-> [name |-> "lights", size |-> Capacity],
     pso    |-> [vs |-> "VERTEX_SRC", gs |-> "", fs |-> "FRAGMENT_SRC"]]

Wireframe_new ==
    [pso |-> [vs |-> "VERTEX_SRC", gs |-> "WIREFRAME_GEOMETRY_SRC",
              fs |-> "FLAT_FRAGMENT_SRC"]]

(***************************************************************************)
(* The encoder operations the passes call.  Each yields the commands it    *)
(* appends to the command stream; update_buffer is fallible, and the       *)
(* caller unwraps its result.                                              *)
(***************************************************************************)
clear(view, value) == <<[op |-> "clear", view |-> view, value |-> value]>>

clear_depth(view, depth) ==
    <<[op |-> "clear_depth", view |-> view, value |-> depth]>>

draw(slice, pso, data) ==
    <<[op |-> "draw", slice |-> slice, pso |-> pso, data |-> data]>>

\* Err(OutOfBounds) when the data does not fit the buffer; nothing is
\* recorded then
update_buffer(buf, data, offset) ==
    IF Len(data) = 0 THEN [ok |-> TRUE, cmds |-> <<>>]
    ELSE IF offset + Len(data) <= buf.size
    THEN [ok |-> TRUE,
          cmds |-> <<[op |-> "update_buffer", buf |-> buf.name,
                      data |-> data, offset |-> offset]>>]
    ELSE [ok |-> FALSE, cmds |-> <<>>]

Returned(cmds) == [outcome |-> "ok", cmds |-> cmds]
\* a panic unwinds out of apply; cmds are those recorded before it
Panicked(cmds) == [outcome |-> "panic", cmds |-> cmds]

(***************************************************************************)
(* Clear::apply                                                            *)
(***************************************************************************)
\* the depth clear left out
Clear_apply_nodepth(arg, target, scenes) ==
    Returned(clear(target.color, arg.color))

Clear_apply(arg, target, scenes) ==
    Returned(clear(target.color, arg.color)
             \o clear_depth(target.output_depth, 1))

(***************************************************************************)
(* DrawNoShading::apply                                                    *)
(***************************************************************************)
FlatData(e, camera, target) ==
    [vbuf |-> e.buffer, ka |-> e.ka, model |-> e.transform,
     view |-> camera.view, proj |-> camera.projection,
     out_ka |-> target.color, out_depth |-> target.output_depth]

FlatDraws(self, scene, camera, target) ==
    [i \in 1..Len(scene.fragments) |->
        draw(scene.fragments[i].slice, self.pso,
             FlatData(scene.fragments[i], camera, target))[1]]

DrawNoShading_apply(self, arg, target, scenes) ==
    IF arg.scene \notin DOMAIN scenes.scenes THEN Panicked(<<>>)
    ELSE IF arg.camera \notin DOMAIN scenes.cameras THEN Panicked(<<>>)
    ELSE Returned(FlatDraws(self, scenes.scenes[arg.scene],
                            scenes.cameras[arg.camera], target))

(***************************************************************************)
(* DrawShaded::apply                                                       *)
(***************************************************************************)
ShadedData(self, e, camera, count, target) ==
    [vbuf |-> e.buffer, ka |-> e.ka, kd |-> e.kd,
     light_count |-> count, lights |-> self.lights.name,
     model |-> e.transform,
     view |-> camera.view, proj |-> camera.projection,
     out_ka |-> target.color, out_depth |-> target.output_depth]

ShadedDraws(self, scene, camera, count, target) ==
    [i \in 1..Len(scene.fragments) |->
        draw(scene.fragments[i].slice, self.pso,
             ShadedData(self, scene.fragments[i], camera, count, target))[1]]

\* the count taken after the padding
LightCount_padded(lights) == Len(PadLights(lights))

\* let count = lights.len(), taken before the padding
LightCount(lights) == Len(lights)

\* the draw loop ahead of the buffer write
ShadedRecord_late(self, scene, camera, target) ==
    LET lights == CollectLights(scene.lights)
        draws  == ShadedDraws(self, scene, camera, Len(lights), target)
        upd    == update_buffer(self.lights, PadLights(lights), 0)
    IN  IF ~upd.ok THEN Panicked(draws \o upd.cmds)
        ELSE Returned(draws \o upd.cmds)

\* the body of apply once scene and camera are resolved
ShadedRecord(self, scene, camera, target) ==
    LET lights == CollectLights(scene.lights)
        count  == LightCount(lights)
        upd    == update_buffer(self.lights, PadLights(lights), 0)
    IN  IF ~upd.ok THEN Panicked(upd.cmds)
        ELSE Returned(upd.cmds
                      \o ShadedDraws(self, scene, camera, count, target))

\* the buffer write ahead of the camera lookup
DrawShaded_apply_eager(self, arg, target, scenes) ==
    IF arg.scene \notin DOMAIN scenes.scenes THEN Panicked(<<>>)
    ELSE LET scene  == scenes.scenes[arg.scene]
             lights == CollectLights(scene.lights)
             upd    == update_buffer(self.lights, PadLights(lights), 0)
         IN  IF ~upd.ok THEN Panicked(upd.cmds)
             ELSE IF arg.camera \notin DOMAIN scenes.cameras
             THEN Panicked(upd.cmds)
             ELSE Returned(upd.cmds
                           \o ShadedDraws(self, scene,
                                          scenes.cameras[arg.camera],
                                          Len(lights), target))

DrawShaded_apply(self, arg, target, scenes) ==
    IF arg.scene \notin DOMAIN scenes.scenes THEN Panicked(<<>>)
    ELSE IF arg.camera \notin DOMAIN scenes.cameras THEN Panicked(<<>>)
    ELSE ShadedRecord(self, scenes.scenes[arg.scene],
                      scenes.cameras[arg.camera], target)

(***************************************************************************)
(* Wireframe::apply                                                        *)
(***************************************************************************)
\* the flat pipeline's bindings, depth target included
WireframeData_depth(e, camera, target) == FlatData(e, camera, target)

WireframeData(e, camera, target) ==
    [vbuf |-> e.buffer, ka |-> e.ka, model |-> e.transform,
     view |-> camera.view, proj |-> camera.projection,
     out_ka |-> target.color]

\* entities drawn last to first
WireframeDraws_reversed(self, scene, camera, target) ==
    [i \in 1..Len(scene.fragments) |->
        LET e == scene.fragments[Len(scene.fragments) + 1 - i]
        IN  draw(e.slice, self.pso, WireframeData(e, camera, target))[1]]

WireframeDraws(self, scene, camera, target) ==
    [i \in 1..Len(scene.fragments) |->
        draw(scene.fragments[i].slice, self.pso,
             WireframeData(scene.fragments[i], camera, target))[1]]

Wireframe_apply(self, arg, target, scenes) ==
    IF arg.scene \notin DOMAIN scenes.scenes THEN Panicked(<<>>)
    ELSE IF arg.camera \notin DOMAIN scenes.cameras THEN Panicked(<<>>)
    ELSE Returned(WireframeDraws(self, scenes.scenes[arg.scene],
                                 scenes.cameras[arg.camera], target))

(***************************************************************************)
(* Effect of the recorded command stream on the GPU resources, in          *)
(* submission order.  A colour or depth image is its last clear value and  *)
(* the number of draws rendered onto it since.                             *)
(***************************************************************************)
ExecuteOne(dev, cmd) ==
    CASE cmd.op = "clear" ->
            [dev EXCEPT !.color = [fill |-> cmd.value, drawn |-> 0]]
      [] cmd.op = "clear_depth" ->
            [dev EXCEPT !.depth = [fill |-> cmd.value, drawn |-> 0]]
      [] cmd.op = "update_buffer" ->
            [dev EXCEPT !.lights =
                [i \in 1..Len(dev.lights) |->
                    IF cmd.offset < i /\ i <= cmd.offset + Len(cmd.data)
                    THEN cmd.data[i - cmd.offset]
                    ELSE dev.lights[i]]]
      [] cmd.op = "draw" ->
            [dev EXCEPT
                !.color = [@ EXCEPT !.drawn = @ + 1],
                !.depth = IF "out_depth" \in DOMAIN cmd.data
                          THEN [@ EXCEPT !.drawn = @ + 1]
                          ELSE @]

RECURSIVE Execute(_, _)
Execute(dev, cmds) ==
    IF cmds = <<>> THEN dev
    ELSE Execute(ExecuteOne(dev, Head(cmds)), Tail(cmds))

\* the GPU resources as the stream recorded so far leaves them
Resources == Execute(device, encoder)
\* ... as the first n commands of the stream leave them
ResourcesAt(n) == Execute(device, SubSeq(encoder, 1, n))

(***************************************************************************)
(* Fragment shaders.                                                       *)
(***************************************************************************)
dot(a, b) ==
    LET RECURSIVE Sum(_)
        Sum(i) == IF i = 0 THEN 0 ELSE a[i] * b[i] + Sum(i - 1)
    IN  Sum(Len(a))

sqrt(n) == CHOOSE r \in 0..n : r * r <= n /\ n < (r + 1) * (r + 1)

length(v) == sqrt(dot(v, v))

FLAT_FRAGMENT_main(u_Ka) == u_Ka

\* one iteration of the light loop: the colour the light adds.  The
\* division by dist that normalize() does is done last, on the dot product.
LightTerm(u_Kd, l, v_Position, v_Normal) ==
    LET delta     == [k \in 1..4 |-> l.center[k] - v_Position[k]]
        dist      == length(delta)
        intensity == dot(SubSeq(l.propagation, 1, 3),
                         <<1, 1 \div dist, 1 \div (dist * dist)>>)
        d         == dot(delta, v_Normal \o <<0>>) \div dist
        facing    == IF d > 0 THEN d ELSE 0
    IN  [k \in 1..4 |-> u_Kd[k] * l.color[k] * intensity * facing]

RECURSIVE LightLoop(_, _, _, _, _, _)
LightLoop(i, color, u_Kd, u_LightCount, light, frag) ==
    IF i < u_LightCount
    THEN LET term == LightTerm(u_Kd, light[i + 1], frag.v_Position,
                               frag.v_Normal)
         IN  LightLoop(i + 1, [k \in 1..4 |-> color[k] + term[k]],
                       u_Kd, u_LightCount, light, frag)
    ELSE color

FRAGMENT_main(u_Ka, u_Kd, u_LightCount, light, frag) ==
    LightLoop(0, u_Ka, u_Kd, u_LightCount, light, frag)

\* rasterised fragments the shaders are evaluated on (world position with
\* w = 1, and normal)
Fragments ==
    {[v_Position |-> <<0, 0, 0, 1>>, v_Normal |-> <<0, 0, 1>>],
     [v_Position |-> <<1, 2, 0, 1>>, v_Normal |-> <<0, 1, 0>>]}

(***************************************************************************)
(* State machine: the orchestrator applies passes, in any order, to one    *)
(* frame, recording into one encoder.  A panic is fatal.                   *)
(***************************************************************************)
\* create_constant_buffer does not initialise the buffer
Stale ==
    [propagation |-> <<7, 7, 7, 7>>,
     color       |-> <<7, 7, 7, 7>>,
     center      |-> <<7, 7, 7, 7>>]

UninitBuffers ==
    {[i \in 1..Capacity |-> Stale], [i \in 1..Capacity |-> ZeroLight]}

Init ==
    /\ frame \in Frames
    /\ passes = [flat |-> DrawNoShading_new, shaded |-> DrawShaded_new,
                 wireframe |-> Wireframe_new]
    /\ \E b \in UninitBuffers :
            device = [lights |-> b,
                      color  |-> [fill |-> <<9, 9, 9, 9>>, drawn |-> 1],
                      depth  |-> [fill |-> 0, drawn |-> 1]]
    /\ encoder = <<>>
    /\ last = [pass |-> "none", arg |-> [scene |-> 0, camera |-> 0],
               outcome |-> "ok", first |-> 1]
    /\ calls = 0

CanApply == calls < MaxCalls /\ last.outcome = "ok"

Invoke(pass, arg, r) ==
    /\ encoder' = encoder \o r.cmds
    /\ last' = [pass |-> pass, arg |-> arg, outcome |-> r.outcome,
                first |-> Len(encoder) + 1]
    /\ calls' = calls + 1
    /\ UNCHANGED <<frame, passes, device>>

DrawArgs == [scene : SceneIds, camera : CameraIds]

ClearApply ==
    /\ CanApply
    /\ \E arg \in [color : ClearColors] :
            Invoke("clear", arg, Clear_apply(arg, Target, frame))

DrawNoShadingApply ==
    /\ CanApply
    /\ \E arg \in DrawArgs :
            Invoke("flat", arg,
                   DrawNoShading_apply(passes.flat, arg, Target, frame))

DrawShadedApply ==
    /\ CanApply
    /\ \E arg \in DrawArgs :
            Invoke("shaded", arg,
                   DrawShaded_apply(passes.shaded, arg, Target, frame))

WireframeApply ==
    /\ CanApply
    /\ \E arg \in DrawArgs :
            Invoke("wireframe", arg,
                   Wireframe_apply(passes.wireframe, arg, Target, frame))

Next ==
    \/ ClearApply
    \/ DrawNoShadingApply
    \/ DrawShadedApply
    \/ WireframeApply

Spec == Init /\ [][Next]_vars

\* the commands the last invocation recorded
Mine == SubSeq(encoder, last.first, Len(encoder))

(***************************************************************************)
(* Properties.                                                             *)
(***************************************************************************)
IsDrawPass == last.pass \in {"flat", "shaded", "wireframe"}
Resolves ==
    /\ last.arg.scene \in DOMAIN frame.scenes
    /\ last.arg.camera \in DOMAIN frame.cameras
LastScene == frame.scenes[last.arg.scene]
LastCamera == frame.cameras[last.arg.camera]
NumLights == Len(LastScene.lights)
ShadedOk == last.pass = "shaded" /\ last.outcome = "ok"
MyDraws == SelectSeq(Mine, LAMBDA c : c.op = "draw")
MyWrites == SelectSeq(Mine, LAMBDA c : c.op = "update_buffer")

\* the GPU record the scene light l is to become
Packed(l) ==
    [propagation |-> <<l.propagation_constant, l.propagation_linear,
                       l.propagation_r_square, 0>>,
     center      |-> <<l.center[1], l.center[2], l.center[3], 0>>,
     color       |-> l.color]

AllZero ==
    [propagation |-> <<0, 0, 0, 0>>, center |-> <<0, 0, 0, 0>>,
     color |-> <<0, 0, 0, 0>>]

\* C1: a shaded apply on a scene with N <= 512 lights uploads exactly 512
\* records, [0,N) the scene's lights in order and transformed, [N,512) zero,
\* and every draw call of the invocation carries light count N.
C1_PackedArray ==
    (last.pass = "shaded" /\ Resolves /\ NumLights <= 512) =>
        LET writes == MyWrites
            draws  == MyDraws
        IN  /\ last.outcome = "ok"
            /\ Len(writes) = 1
            /\ Len(writes[1].data) = 512
            /\ \A i \in 1..512 :
                  writes[1].data[i] =
                     IF i <= NumLights THEN Packed(LastScene.lights[i])
                                       ELSE AllZero
            /\ \A i \in 1..Len(draws) : draws[i].data.light_count = NumLights

C1_Witness ==
    /\ ShadedOk
    /\ NumLights = 5
    /\ Len(MyDraws) >= 2

\* C2: a shaded apply on a scene with N > 512 lights uploads the first 512
\* lights, binds light count 512 into every draw call, and does not fail.
C2_SilentCap ==
    (last.pass = "shaded" /\ Resolves /\ NumLights > 512) =>
        LET writes == MyWrites
            draws  == MyDraws
        IN  /\ last.outcome = "ok"
            /\ Len(writes) = 1
            /\ Len(writes[1].data) = 512
            /\ \A i \in 1..512 :
                  writes[1].data[i] = Packed(LastScene.lights[i])
            /\ Len(draws) = Len(LastScene.fragments)
            /\ \A i \in 1..Len(draws) : draws[i].data.light_count = 512

\* C3: a successful apply of a draw pass records exactly one draw command
\* per entity of the scene, in insertion order, carrying that entity's
\* vertex buffer, slice, ka and transform and the selected camera's view
\* and projection.
C3_DrawOrder ==
    (IsDrawPass /\ last.outcome = "ok") =>
        LET draws == MyDraws
        IN  /\ Len(draws) = Len(LastScene.fragments)
            /\ \A i \in 1..Len(draws) :
                  LET e == LastScene.fragments[i]
                      c == draws[i]
                  IN  /\ c.slice = e.slice
                      /\ c.data.vbuf = e.buffer
                      /\ c.data.ka = e.ka
                      /\ c.data.model = e.transform
                      /\ c.data.view = LastCamera.view
                      /\ c.data.proj = LastCamera.projection

C3_Witness ==
    /\ last.pass = "wireframe"
    /\ last.outcome = "ok"
    /\ last.arg.camera = 2
    /\ Len(MyDraws) >= 2
    /\ last.first > 1

\* C4: an invocation that fails has recorded none of its commands; an
\* apply of a draw pass whose scene or camera id is absent from the frame
\* fails, with the command stream and the light buffer as before the call.
C4_AllOrNothing ==
    /\ last.outcome = "panic" => Mine = <<>>
    /\ (IsDrawPass /\ ~Resolves) =>
          /\ last.outcome = "panic"
          /\ Len(encoder) = last.first - 1
          /\ Resources = ResourcesAt(last.first - 1)

C4_Witness ==
    /\ last.pass = "shaded"
    /\ last.outcome = "panic"
    /\ last.arg.scene \in DOMAIN frame.scenes
    /\ last.arg.camera \notin DOMAIN frame.cameras
    /\ encoder # <<>>

EmptyFrame == [scenes |-> <<>>, cameras |-> <<>>]

\* the invocation before the last one was a Clear with the same colour
ClearedTwice ==
    /\ last.pass = "clear"
    /\ last.first >= 3
    /\ SubSeq(encoder, last.first - 2, last.first - 1) = Mine

\* C6: Clear leaves the colour target at the given colour and the depth
\* target at 1.0; applying it again with the same colour leaves the target
\* as one application did; it records the same commands for an empty frame.
C6_ClearIdempotent ==
    last.pass = "clear" =>
        LET now == Resources
        IN  /\ last.outcome = "ok"
            /\ now.color = [fill |-> last.arg.color, drawn |-> 0]
            /\ now.depth = [fill |-> 1, drawn |-> 0]
            /\ Execute(now, Mine) = now
            /\ ClearedTwice => now = ResourcesAt(last.first - 1)
            /\ Clear_apply(last.arg, Target, EmptyFrame) = Returned(Mine)

C6_Witness ==
    /\ ClearedTwice
    /\ device.color.drawn > 0

C8_NoLightsLikeFlat ==
    (ShadedOk /\ NumLights = 0) =>
        LET flat  == DrawNoShading_apply(passes.flat, last.arg, Target, frame)
            draws == MyDraws
            held  == Resources.lights
        IN  /\ flat.outcome = "ok"
            /\ Len(draws) = Len(flat.cmds)
            /\ \A i \in 1..512 : held[i] = AllZero
            /\ \A i \in 1..Len(draws) :
                  LET s == draws[i]
                      f == flat.cmds[i]
                  IN  /\ s.slice = f.slice
                      /\ s.data.vbuf = f.data.vbuf
                      /\ s.data.ka = f.data.ka
                      /\ s.data.model = f.data.model
                      /\ s.data.view = f.data.view
                      /\ s.data.proj = f.data.proj
                      /\ s.data.out_ka = f.data.out_ka
                      /\ s.data.out_depth = f.data.out_depth
                      /\ s.data.light_count = 0
                      /\ \A frag \in Fragments :
                            /\ FRAGMENT_main(s.data.ka, s.data.kd,
                                             s.data.light_count,
                                             held, frag)
                                  = s.data.ka
                            /\ FLAT_FRAGMENT_main(f.data.ka) = s.data.ka

C8_Witness ==
    /\ ShadedOk
    /\ NumLights = 0
    /\ Len(MyDraws) >= 2
    /\ device.lights[1] # AllZero
    /\ 2 \in DOMAIN frame.scenes
    /\ \E frag \in Fragments :
          FRAGMENT_main(MyDraws[1].data.ka, MyDraws[1].data.kd, 2,
                        CollectLights(frame.scenes[2].lights), frag)
             # MyDraws[1].data.ka

\* C9: in every record of every uploaded array the 4th component of
\* propagation and the 4th component of center are 0.
C9_PaddingZero ==
    \A c \in 1..Len(encoder) :
        encoder[c].op = "update_buffer" =>
            \A i \in 1..Len(encoder[c].data) :
                /\ encoder[c].data[i].propagation[4] = 0
                /\ encoder[c].data[i].center[4] = 0

C9_Witness ==
    \E c \in 1..Len(encoder) :
        /\ encoder[c].op = "update_buffer"
        /\ Len(encoder[c].data) = 512
        /\ encoder[c].data[1].propagation[1] # 0
        /\ encoder[c].data[1].center[3] # 0
        /\ encoder[c].data[512] = AllZero

\* C10: no invocation changes the frame or a pass's pipeline state or
\* buffer handle; Clear, flat and wireframe invocations record no buffer
\* write and leave the light buffer as it was; a shaded invocation writes
\* only its own buffer; wireframe draw commands bind the colour target and
\* no depth target.
C10_Step ==
    LET new == SubSeq(encoder', Len(encoder) + 1, Len(encoder'))
    IN  /\ frame' = frame
        /\ passes' = passes
        /\ last'.pass \in {"clear", "flat", "wireframe"} =>
              /\ \A i \in 1..Len(new) : new[i].op # "update_buffer"
              /\ Execute(device', encoder').lights = Resources.lights
        /\ last'.pass = "shaded" =>
              \A i \in 1..Len(new) :
                  new[i].op = "update_buffer" =>
                      new[i].buf = passes.shaded.lights.name
        /\ last'.pass = "wireframe" =>
              \A i \in 1..Len(new) :
                  /\ new[i].op = "draw"
                  /\ new[i].data.out_ka = Target.color
                  /\ "out_depth" \notin DOMAIN new[i].data

C10_FrameEffect == [][C10_Step]_vars

C10_Witness ==
    /\ last.pass = "wireframe"
    /\ last.outcome = "ok"
    /\ Len(Mine) >= 2
    /\ last.first > 1
    /\ encoder[1].op = "update_buffer"

====
